---- MODULE Spec2Model ----
(***************************************************************************)
(* Model of the ConwayGame component of                                    *)
(* components/render-homepage-code.tsx: the effect that sizes the canvas,  *)
(* seeds the grid, and the interval callback draw() that renders the grid  *)
(* and replaces it by update(grid); of the bouncing numbers of             *)
(* components/three-rules-bounce.tsx (ThreeRulesBounce and ToggleBounce);  *)
(* and of the catch-all route app/[...slug]/page.tsx.  Each component has  *)
(* its own variables and its own specifications; the steps of one leave    *)
(* the variables of the others unchanged.                                  *)
(*                                                                         *)
(* Arrays are functions on 0..n-1, as in the source.  The grids live in a  *)
(* heap (address -> array of rows) so that aliasing between the argument   *)
(* of update and the array it writes is something the model can express.   *)
(***************************************************************************)
EXTENDS Integers, Sequences, FiniteSets, TLC

\* const cellSize = 5
cellSize == 5

\* canvas.height = <CanvasHeight>.  The source sets 100 (20 rows of cells);
\* the model is checked on a lower surface so that every grid is enumerated.
CanvasHeight == 15

\* The largest window.innerWidth the environment reports.
MaxInnerWidth == 11

\* The values of window.innerWidth: those where Math.ceil(w / cellSize)
\* changes (a multiple of cellSize and the pixel after it), 0 included.
InnerWidths == {w \in 0..MaxInnerWidth : w % cellSize \in {0, 1}}

VARIABLES
    canvas_width,   \* canvas.width
    canvas_height,  \* canvas.height
    width,          \* const width  (cells per row)
    height,         \* const height (rows)
    heap,           \* allocated arrays: address -> grid
    grid,           \* let grid: the address of the current grid
    frame,          \* origins <<x, y>> of the squares filled since the last clear
    interval,       \* the setInterval timer is active
    listener,       \* the resize listener is registered
    last,           \* the last callback that ran
    updInAddr,      \* last update call: address of its argument
    updIn,          \* last update call: the argument's cells at entry
    updInAfter,     \* last update call: the cells at that address at return
    reads,          \* last update call: indices read by countAliveNeighbors
    counts,         \* last update call: what countAliveNeighbors returned per cell
    canvasRef_current, \* canvasRef.current is an element (not null)
    canvas,         \* const canvas is an element (not null)
    ctx,            \* const ctx is a context (not null)
    drawCalls,      \* calls on ctx (clearRect, fillRect) made by the last draw()
    tickEvents,     \* what the last draw() did, in order: "render", "update"
    \* ThreeRulesBounce and ToggleBounce
    show,           \* const [show, setShow] = useState(false)
    clicks,         \* clicks on the button so far
    b_intervals,    \* active setInterval timers of ThreeRulesBounce effects
    b_listeners,    \* registered resize listeners of ThreeRulesBounce effects
    b_width,        \* let width of the effect
    b_height,       \* let height of the effect
    positions,      \* const positions: three records x, y, dx, dy
    posBefore,      \* positions at the entry of the last interval callback
    b_frame,        \* last draw(): <<rows, columns>> of the frame allocated, or <<>>
    b_writes,       \* last draw(): the <<y, x>> of each assignment frame[y][x] = ..
    b_error,        \* what the last interval callback threw, or "none"
    textContent,    \* pre.textContent: the rows of the last frame rendered
    b_last,         \* the last thing that happened to the bounce component
    \* Page of app/[...slug]/page.tsx
    fs,             \* the .mdx files on disk
    bundle,         \* the modules the import() of Page can resolve
    slug,           \* params.slug of the last request
    filePath,       \* the path the last request passed to existsSync
    imported,       \* the last request's import(): "no" (not made), "threw", "ok"
    outcome,        \* how the last request ended
    Content         \* the file whose component the last request returned, or <<>>

conwayVars == <<canvas_width, canvas_height, width, height, heap, grid, frame,
                interval, listener, last, updInAddr, updIn, updInAfter, reads, counts,
                canvasRef_current, canvas, ctx, drawCalls, tickEvents>>

bounceVars == <<show, clicks, b_intervals, b_listeners, b_width, b_height, positions,
                posBefore, b_frame, b_writes, b_error, textContent, b_last>>

pageVars == <<fs, bundle, slug, filePath, imported, outcome, Content>>

vars == <<conwayVars, bounceVars, pageVars>>

\* ToggleBounce as first rendered: show is false, ThreeRulesBounce is not
\* mounted, so its effect has not run and none of its variables exists.
BounceHidden ==
    /\ show = FALSE
    /\ clicks = 0
    /\ b_intervals = 0
    /\ b_listeners = 0
    /\ b_width = 0
    /\ b_height = 0
    /\ positions = <<>>
    /\ posBefore = <<>>
    /\ b_frame = <<>>
    /\ b_writes = {}
    /\ b_error = "none"
    /\ textContent = <<>>
    /\ b_last = "hidden"

\* No request has reached Page, and there is no content.
PageIdle ==
    /\ fs = {}
    /\ bundle = {}
    /\ slug = <<>>
    /\ filePath = <<>>
    /\ imported = "no"
    /\ outcome = "none"
    /\ Content = <<>>

Addrs == {0, 1}

\* Math.ceil(a / b) for a >= 0, b > 0
CeilDiv(a, b) == (a + b - 1) \div b

Rows == 0..(height - 1)
Cols == 0..(width - 1)
Cells == Rows \X Cols

\* Array(h).fill(null).map(() => Array(w).fill(null).map(() => Math.round(Math.random())))
RandomGrids(h, w) == [0..(h - 1) -> [0..(w - 1) -> {0, 1}]]

ZeroGrid_square == [r \in Rows |-> [c \in Rows |-> 0]]

\* Array(height).fill(null).map(() => Array(width).fill(0))
ZeroGrid == [r \in Rows |-> [c \in Cols |-> 0]]

\* g[r][c]; an index outside the array (never taken behind the bounds
\* check) contributes nothing to a sum.
Cell(g, r, c) == IF r \in DOMAIN g /\ c \in DOMAIN g[r] THEN g[r][c] ELSE 0

InBounds_noLower(r, c) == r < height /\ c < width

\* x + i >= 0 && x + i < height && y + j >= 0 && y + j < width
InBounds(r, c) == r >= 0 /\ r < height /\ c >= 0 /\ c < width

\* The double loop of countAliveNeighbors from its k-th iteration on,
\* k = 3 * (i + 1) + (j + 1): the sum and the indices read.  (The one-element
\* set binds the rest of the loop to its value, computed once.)
RECURSIVE NeighborScan(_, _, _, _)
NeighborScan(g, x, y, k) ==
    IF k = 9 THEN [count |-> 0, reads |-> {}]
    ELSE LET i == (k \div 3) - 1
             j == (k % 3) - 1
         IN  IF i = 0 /\ j = 0 THEN NeighborScan(g, x, y, k + 1)
             ELSE IF InBounds(x + i, y + j)
                  THEN CHOOSE r \in {[count |-> Cell(g, x + i, y + j) + rest.count,
                                      reads |-> {<<x + i, y + j>>} \cup rest.reads] :
                                        rest \in {NeighborScan(g, x, y, k + 1)}} : TRUE
                  ELSE NeighborScan(g, x, y, k + 1)

countAliveNeighbors_self(g, x, y) == NeighborScan(g, x, y, 0).count + Cell(g, x, y)

countAliveNeighbors(g, x, y) == NeighborScan(g, x, y, 0).count

NextCell_birthOn2(cell, neighbors) ==
    IF cell = 0 /\ neighbors = 2 THEN 1
    ELSE IF cell = 1 /\ (neighbors < 2 \/ neighbors > 3) THEN 0
    ELSE cell

NextCell_dieOn3(cell, neighbors) ==
    IF cell = 0 /\ neighbors = 3 THEN 1
    ELSE IF cell = 1 /\ (neighbors < 2 \/ neighbors >= 3) THEN 0
    ELSE cell

NextCell_birthFrom3(cell, neighbors) ==
    IF cell = 0 /\ neighbors >= 3 THEN 1
    ELSE IF cell = 1 /\ (neighbors < 2 \/ neighbors > 3) THEN 0
    ELSE cell

NextCell_noIsolation(cell, neighbors) ==
    IF cell = 0 /\ neighbors = 3 THEN 1
    ELSE IF cell = 1 /\ neighbors > 3 THEN 0
    ELSE cell

NextCell_birthUpTo3(cell, neighbors) ==
    IF cell = 0 /\ neighbors <= 3 THEN 1
    ELSE IF cell = 1 /\ (neighbors < 2 \/ neighbors > 3) THEN 0
    ELSE cell

\* The if / else if / else of update's loop body: the value written to
\* newGrid[i][j].
NextCell(cell, neighbors) ==
    IF cell = 0 /\ neighbors = 3 THEN 1
    ELSE IF cell = 1 /\ (neighbors < 2 \/ neighbors > 3) THEN 0
    ELSE cell

\* update's nested loop from its k-th iteration on (k = i * width + j),
\* reading the array at address in and writing the one at address out.
\* (The one-element sets bind the state after an iteration, and the
\* neighbour count, to their values, computed once.)
RECURSIVE UpdateLoop(_, _, _, _)
UpdateLoop(acc, in, out, k) ==
    IF k = height * width THEN acc
    ELSE LET i == k \div width
             j == k % width
             g == acc.heap[in]
             Iteration(neighbors) ==
                 [heap   |-> [acc.heap EXCEPT
                                 ![out][i][j] = NextCell(Cell(g, i, j), neighbors)],
                  reads  |-> acc.reads \cup NeighborScan(g, i, j, 0).reads,
                  counts |-> (<<i, j>> :> neighbors) @@ acc.counts]
         IN  CHOOSE r \in {UpdateLoop(a, in, out, k + 1) :
                             a \in {Iteration(n) : n \in {countAliveNeighbors(g, i, j)}}} : TRUE

NoCounts == [p \in {} |-> 0]

update_inPlace(hp, in) ==
    [addr |-> in] @@ UpdateLoop([heap |-> hp, reads |-> {}, counts |-> NoCounts],
                                in, in, 0)

\* update(grid): newGrid is a new array of zeros; the loop fills it; it is
\* returned.  The result carries the heap after the call and newGrid's address.
update(hp, in) ==
    LET newGrid == CHOOSE a \in Addrs : a \notin DOMAIN hp
        hp0 == [a \in DOMAIN hp \cup {newGrid} |->
                   IF a = newGrid THEN ZeroGrid ELSE hp[a]]
    IN  [addr |-> newGrid] @@ UpdateLoop([heap |-> hp0, reads |-> {},
                                          counts |-> NoCounts], in, newGrid, 0)

\* The cells of update(g), for an array g held alone in the heap.
updateValue(g) ==
    LET res == update([a \in {0} |-> g], 0)
    IN  res.heap[res.addr]

\* The squares draw's loop fills for grid g: fillRect(j * cellSize, i * cellSize, ..)
\* for every cell with g[i][j] === 1.
Filled(g) == {<<p[2] * cellSize, p[1] * cellSize>> : p \in {q \in Cells : Cell(g, q[1], q[2]) = 1}}

\* ctx.clearRect(0, 0, canvas.width, canvas.height) on a canvas showing
\* the squares f: the whole bitmap is cleared.
clearRect_none(f) == f

clearRect(f) == {}

\* The state the effect leaves when it runs to its end on a canvas whose
\* width and height become cw and ch, the seed grid being g.
Setup(cw, ch, g) ==
    /\ canvasRef_current = TRUE
    /\ canvas = TRUE
    /\ ctx = TRUE
    /\ canvas_width = cw
    /\ canvas_height = ch
    /\ width = CeilDiv(cw, cellSize)
    /\ height = CeilDiv(ch, cellSize)
    /\ grid = 0
    /\ heap = [a \in {0} |-> g]
    /\ updIn = g
    /\ updInAfter = g
    /\ updInAddr = 0
    /\ frame = {}
    /\ drawCalls = 0
    /\ interval = TRUE
    /\ listener = TRUE
    /\ last = "mount"
    /\ reads = {}
    /\ counts = NoCounts
    /\ tickEvents = <<>>
    /\ BounceHidden
    /\ PageIdle

Init ==
    \E w \in InnerWidths :
        \E g \in RandomGrids(CeilDiv(CanvasHeight, cellSize), CeilDiv(w, cellSize)) :
            Setup(w, CanvasHeight, g)

\* ConwayGame without its timer, listener and grid: the effect returned
\* early, canvasRef.current being null (hasCanvas false) or getContext('2d')
\* returning null.  Nothing after line 30 ran; the sizes and the grid do not
\* exist and are given as empty.
NoGame(hasCanvas) ==
    /\ canvasRef_current = hasCanvas
    /\ canvas = hasCanvas
    /\ ctx = FALSE
    /\ canvas_width = 0
    /\ canvas_height = 0
    /\ width = 0
    /\ height = 0
    /\ grid = 0
    /\ heap = [a \in {0} |-> <<>>]
    /\ updIn = <<>>
    /\ updInAfter = <<>>
    /\ updInAddr = 0
    /\ frame = {}
    /\ drawCalls = 0
    /\ interval = FALSE
    /\ listener = FALSE
    /\ last = "mount"
    /\ reads = {}
    /\ counts = NoCounts
    /\ tickEvents = <<>>

\* The effect of ConwayGame returned early.
EarlyReturn(hasCanvas) ==
    /\ NoGame(hasCanvas)
    /\ BounceHidden
    /\ PageIdle

draw_updateFirst ==
    /\ interval
    /\ IF ~ctx \/ ~canvas
       THEN /\ drawCalls' = 0
            /\ tickEvents' = <<>>
            /\ UNCHANGED <<frame, grid, heap, updInAddr, updIn, updInAfter, reads, counts>>
       ELSE \E g \in {heap[grid]}, res \in {update(heap, grid)} :
               /\ frame' = clearRect(frame) \cup Filled(res.heap[res.addr])
               /\ drawCalls' = 1 + Cardinality(Filled(res.heap[res.addr]))
               /\ grid' = res.addr
               /\ heap' = [a \in {res.addr} |-> res.heap[a]]
               /\ updInAddr' = grid
               /\ updIn' = g
               /\ updInAfter' = res.heap[grid]
               /\ reads' = res.reads
               /\ counts' = res.counts
               /\ tickEvents' = <<"update", "render">>
    /\ last' = "tick"
    /\ UNCHANGED <<canvas_width, canvas_height, width, height, interval, listener,
                   canvasRef_current, canvas, ctx>>
    /\ UNCHANGED <<bounceVars, pageVars>>

draw_once ==
    /\ interval
    /\ IF ~ctx \/ ~canvas
       THEN /\ drawCalls' = 0
            /\ tickEvents' = <<>>
            /\ UNCHANGED <<frame, grid, heap, updInAddr, updIn, updInAfter, reads, counts>>
       ELSE \E g \in {heap[grid]}, res \in {update(heap, grid)} :
               /\ frame' = clearRect(frame) \cup Filled(g)
               /\ drawCalls' = 1 + Cardinality(Filled(g))
               /\ grid' = res.addr
               /\ heap' = [a \in {res.addr} |-> res.heap[a]]
               /\ updInAddr' = grid
               /\ updIn' = g
               /\ updInAfter' = res.heap[grid]
               /\ reads' = res.reads
               /\ counts' = res.counts
               /\ tickEvents' = <<"render", "update">>
    /\ last' = "tick"
    /\ interval' = FALSE
    /\ UNCHANGED <<canvas_width, canvas_height, width, height, listener,
                   canvasRef_current, canvas, ctx>>
    /\ UNCHANGED <<bounceVars, pageVars>>

draw_noUpdate ==
    /\ interval
    /\ IF ~ctx \/ ~canvas
       THEN /\ drawCalls' = 0
            /\ tickEvents' = <<>>
            /\ UNCHANGED frame
       ELSE \E g \in {heap[grid]} :
               /\ frame' = clearRect(frame) \cup Filled(g)
               /\ drawCalls' = 1 + Cardinality(Filled(g))
               /\ tickEvents' = <<"render">>
    /\ last' = "tick"
    /\ UNCHANGED <<canvas_width, canvas_height, width, height, interval, listener,
                   canvasRef_current, canvas, ctx,
                   grid, heap, updInAddr, updIn, updInAfter, reads, counts>>
    /\ UNCHANGED <<bounceVars, pageVars>>

\* One firing of setInterval(draw, 500): return if ctx or canvas (the
\* constants captured by the effect) is null; else clearRect, fill the alive
\* cells of the current grid, then grid = update(grid).  The array grid
\* referred to before is unreachable afterwards and leaves the heap.
draw ==
    /\ interval
    /\ IF ~ctx \/ ~canvas
       THEN /\ drawCalls' = 0
            /\ tickEvents' = <<>>
            /\ UNCHANGED <<frame, grid, heap, updInAddr, updIn, updInAfter, reads, counts>>
       ELSE \E g \in {heap[grid]}, res \in {update(heap, grid)} :
               /\ frame' = clearRect(frame) \cup Filled(g)
               /\ drawCalls' = 1 + Cardinality(Filled(g))
               /\ grid' = res.addr
               /\ heap' = [a \in {res.addr} |-> res.heap[a]]
               /\ updInAddr' = grid
               /\ updIn' = g
               /\ updInAfter' = res.heap[grid]
               /\ reads' = res.reads
               /\ counts' = res.counts
               /\ tickEvents' = <<"render", "update">>
    /\ last' = "tick"
    /\ UNCHANGED <<canvas_width, canvas_height, width, height, interval, listener,
                   canvasRef_current, canvas, ctx>>
    /\ UNCHANGED <<bounceVars, pageVars>>

updateCanvasSize_recomputesWidth(w) ==
    /\ listener
    /\ canvas_width' = w
    /\ canvas_height' = CanvasHeight
    /\ width' = CeilDiv(w, cellSize)
    /\ frame' = {}
    /\ last' = "resize"
    /\ UNCHANGED <<height, heap, grid, interval, listener, drawCalls,
                   canvasRef_current, canvas, ctx,
                   updInAddr, updIn, updInAfter, reads, counts, tickEvents,
                   bounceVars, pageVars>>

updateCanvasSize_reseeds(w) ==
    /\ listener
    /\ canvas_width' = w
    /\ canvas_height' = CanvasHeight
    /\ \E g \in RandomGrids(height, width) : heap' = [a \in {grid} |-> g]
    /\ frame' = {}
    /\ last' = "resize"
    /\ UNCHANGED <<width, height, grid, interval, listener, drawCalls,
                   canvasRef_current, canvas, ctx,
                   updInAddr, updIn, updInAfter, reads, counts, tickEvents,
                   bounceVars, pageVars>>

\* The resize listener, window.innerWidth being w: it assigns canvas.width
\* and canvas.height (which resets the canvas bitmap) and nothing else.
updateCanvasSize(w) ==
    /\ listener
    /\ canvas_width' = w
    /\ canvas_height' = CanvasHeight
    /\ frame' = {}
    /\ last' = "resize"
    /\ UNCHANGED <<width, height, heap, grid, interval, listener, drawCalls,
                   canvasRef_current, canvas, ctx,
                   updInAddr, updIn, updInAfter, reads, counts, tickEvents,
                   bounceVars, pageVars>>

cleanup_keepsListener ==
    /\ interval
    /\ interval' = FALSE
    /\ last' = "cleanup"
    /\ UNCHANGED <<canvas_width, canvas_height, width, height, heap, grid, frame,
                   listener, drawCalls, canvasRef_current, canvas, ctx,
                   updInAddr, updIn, updInAfter, reads, counts, tickEvents,
                   bounceVars, pageVars>>

\* The effect's cleanup: clearInterval and removeEventListener.
cleanup ==
    /\ interval
    /\ interval' = FALSE
    /\ listener' = FALSE
    /\ last' = "cleanup"
    /\ UNCHANGED <<canvas_width, canvas_height, width, height, heap, grid, frame,
                   drawCalls, canvasRef_current, canvas, ctx,
                   updInAddr, updIn, updInAfter, reads, counts, tickEvents,
                   bounceVars, pageVars>>

Next ==
    \/ draw
    \/ \E w \in InnerWidths : updateCanvasSize(w)
    \/ cleanup

Spec == Init /\ [][Next]_vars


(***************************************************************************)
(* The canvas element leaving the document before the cleanup has run,     *)
(* and the effect's two early returns.                                     *)
(***************************************************************************)

\* React detaches the ref of the unmounted <canvas ref={canvasRef}>:
\* canvasRef.current becomes null.  The constants canvas and ctx captured by
\* the effect keep their values.
detach ==
    /\ canvasRef_current
    /\ canvasRef_current' = FALSE
    /\ last' = "detach"
    /\ UNCHANGED <<canvas, ctx, canvas_width, canvas_height, width, height, heap,
                   grid, frame, drawCalls, interval, listener,
                   updInAddr, updIn, updInAfter, reads, counts, tickEvents,
                   bounceVars, pageVars>>

InitSurface == Init \/ \E hasCanvas \in BOOLEAN : EarlyReturn(hasCanvas)

NextSurface == Next \/ detach

SpecSurface == InitSurface /\ [][NextSurface]_vars

(***************************************************************************)
(* update on chosen patterns: the effect run on surfaces of h x w cells    *)
(* whose seed is one of the patterns below, followed by timer ticks.       *)
(***************************************************************************)

\* The largest number of rows and of columns of a pattern grid.
MaxPatternDim == 5

\* The h x w array whose alive cells are those of S.
GridOf(h, w, S) ==
    [r \in 0..(h - 1) |-> [c \in 0..(w - 1) |-> IF <<r, c>> \in S THEN 1 ELSE 0]]

Block(r, c) == {<<r, c>>, <<r, c + 1>>, <<r + 1, c>>, <<r + 1, c + 1>>}
HBlinker(r, c) == {<<r, c - 1>>, <<r, c>>, <<r, c + 1>>}
VBlinker(r, c) == {<<r - 1, c>>, <<r, c>>, <<r + 1, c>>}

\* The sets of alive cells seeded on an h x w grid: none, one cell, a block,
\* a blinker of three cells in a row or in a column, at every position where
\* the pattern lies inside the grid.
PatternCells(h, w) ==
    LET P == (0..(h - 1)) \X (0..(w - 1))
        AllAt(p) == {{p}, Block(p[1], p[2]), HBlinker(p[1], p[2]), VBlinker(p[1], p[2])}
    IN  {{}} \cup {S \in UNION {AllAt(p) : p \in P} : S \subseteq P}

InitPatterns ==
    \E h \in 1..MaxPatternDim, w \in 0..MaxPatternDim :
        \E S \in PatternCells(h, w) :
            Setup(w * cellSize, h * cellSize, GridOf(h, w, S))

NextPatterns == draw

SpecPatterns == InitPatterns /\ [][NextPatterns]_vars

\* The effect run on the surfaces of Init with a pattern as the seed, under
\* every interleaving of ticks, resizes and the cleanup, the timer firing
\* again and again for as long as it is registered.
InitLive ==
    \E w \in InnerWidths :
        \E S \in PatternCells(CeilDiv(CanvasHeight, cellSize), CeilDiv(w, cellSize)) :
            Setup(w, CanvasHeight,
                  GridOf(CeilDiv(CanvasHeight, cellSize), CeilDiv(w, cellSize), S))

SpecLive == InitLive /\ [][Next]_vars /\ WF_vars(draw)

(***************************************************************************)
(* Page of app/[...slug]/page.tsx.  A path is a sequence of segments; a    *)
(* file is a directory (a path) and a name, the name standing for the      *)
(* segment followed by ".mdx".                                             *)
(***************************************************************************)

\* The largest number of segments of a requested path.
MaxSlugLen == 3

\* The segments a requested path is made of.
Segments == {"..", "a", "b"}

\* params.slug of a catch-all route: one segment or more.
Slugs == UNION {[1..n -> Segments] : n \in 1..MaxSlugLen}

\* process.cwd()
cwd == <<"site">>

\* join(process.cwd(), 'app/content')
contentDir == cwd \o <<"app", "content">>

File(dir, name) == [dir |-> dir, name |-> name]

\* The sequence s without its last element.
Front(s) == SubSeq(s, 1, Len(s) - 1)

Last(s) == s[Len(s)]

\* The path p is the path q or lies below it.
Inside(p, q) == Len(p) >= Len(q) /\ SubSeq(p, 1, Len(q)) = q

\* What path.join does to the segments rest appended to the absolute path
\* done: a ".." removes the segment before it, and is dropped at the root.
RECURSIVE Normalize(_, _)
Normalize(done, rest) ==
    IF rest = <<>> THEN done
    ELSE IF Head(rest) = ".."
         THEN Normalize(IF done = <<>> THEN <<>> ELSE Front(done), Tail(rest))
         ELSE Normalize(Append(done, Head(rest)), Tail(rest))

\* join(process.cwd(), 'app/content', `${slug}.mdx`), slug being the segments
\* sl joined by '/': every segment but the last names a directory and is
\* normalized; the last one, with ".mdx" after it, is the file's name (never
\* a reference to the parent directory, whatever the segment).
FilePath(sl) == File(Normalize(contentDir, Front(sl)), Last(sl))

Module_flat(sl) == File(contentDir, Last(sl))

\* The module the request `@/app/content/${slug}.mdx` names: the bundler
\* looks the request up as written among the modules it compiled from the
\* files of app/content.
Module(sl) == File(contentDir \o Front(sl), Last(sl))

\* The .mdx files that may be on disk: three below app/content (one of them
\* in a folder, one named "...mdx"), one in app, one in process.cwd().
DiskFiles ==
    {File(contentDir, "a"), File(contentDir \o <<"a">>, "b"), File(contentDir, ".."),
     File(cwd \o <<"app">>, "a"), File(cwd, "b")}

\* The files the bundler may have compiled: those below app/content.
BundleFiles == {f \in DiskFiles : Inside(f.dir, contentDir)}

Page_noExistsCheck(sl, throws) ==
    /\ slug' = sl
    /\ filePath' = FilePath(sl)
    /\ IF Module(sl) \notin bundle \/ throws
       THEN /\ imported' = "threw"
            /\ outcome' = "notFound"
            /\ Content' = <<>>
       ELSE /\ imported' = "ok"
            /\ outcome' = "content"
            /\ Content' = Module(sl)
    /\ UNCHANGED <<fs, bundle, conwayVars, bounceVars>>

\* One request: Page({ params }) with params.slug = sl.  notFound() throws,
\* which ends the function; the import throws when the bundle has no such
\* module or when evaluating the module throws (throws), and the catch
\* calls notFound().
Page(sl, throws) ==
    /\ slug' = sl
    /\ filePath' = FilePath(sl)
    /\ IF FilePath(sl) \notin fs
       THEN /\ imported' = "no"
            /\ outcome' = "notFound"
            /\ Content' = <<>>
       ELSE IF Module(sl) \notin bundle \/ throws
            THEN /\ imported' = "threw"
                 /\ outcome' = "notFound"
                 /\ Content' = <<>>
            ELSE /\ imported' = "ok"
                 /\ outcome' = "content"
                 /\ Content' = Module(sl)
    /\ UNCHANGED <<fs, bundle, conwayVars, bounceVars>>

\* The server with some files on disk and some modules in the bundle, no
\* request served yet; the client components are not part of it.
InitPage ==
    /\ NoGame(FALSE)
    /\ BounceHidden
    /\ fs \in SUBSET DiskFiles
    /\ bundle \in SUBSET BundleFiles
    /\ slug = <<>>
    /\ filePath = <<>>
    /\ imported = "no"
    /\ outcome = "none"
    /\ Content = <<>>

NextPage == \E sl \in Slugs, throws \in BOOLEAN : Page(sl, throws)

SpecPage == InitPage /\ [][NextPage]_vars

(***************************************************************************)
(* ThreeRulesBounce and ToggleBounce of components/three-rules-bounce.tsx  *)
(***************************************************************************)

\* The largest side of the container, in tens of px.
MaxTens == 4

\* The largest number of clicks on the button.
MaxClicks == 3

\* pre.parentElement.offsetWidth and offsetHeight, the container being
\* measured square: 0, and a size in every ten px from 15 px on (15 px gives
\* a width of -1 and a height of 0, 25 px a width of 0 and a height of 1).
OffsetSizes == {0} \cup {10 * k + 5 : k \in 1..MaxTens}

\* window.innerWidth and innerHeight, the window being measured square: 0,
\* and the size that gives a width of 1 and a height of 2.
WindowSizes == {0, 35}

\* a || b on numbers: b when a is 0
OrElse(a, b) == IF a # 0 THEN a ELSE b

\* updateSize(), the container measuring ow x oh px and the window iw x ih px
updateSize(ow, oh, iw, ih) ==
    [width  |-> (OrElse(ow, iw) - 20) \div 10,
     height |-> (OrElse(oh, ih) - 10) \div 10]

\* const positions = [...] for the width w and the height h: Math.floor of
\* w * 0.25, w * 0.50, w * 0.75 and of h / 2.
InitialPositions(w, h) ==
    <<[x |-> w \div 4,       y |-> h \div 2, dx |-> 1,  dy |-> 1],
      [x |-> w \div 2,       y |-> h \div 2, dx |-> -1, dy |-> 1],
      [x |-> (3 * w) \div 4, y |-> h \div 2, dx |-> 1,  dy |-> -1]>>

BounceAxis_offByOne(v, d, size) ==
    LET moved == v + d
        low == IF moved < 0 THEN [v |-> 0, d |-> 1] ELSE [v |-> moved, d |-> d]
    IN  IF low.v > size THEN [v |-> size - 1, d |-> -1] ELSE low

\* updatePositions on one axis: pos.x += pos.dx; if (pos.x < 0) {..};
\* if (pos.x >= width) {..}, the second test made on what the first left.
BounceAxis(v, d, size) ==
    LET moved == v + d
        low == IF moved < 0 THEN [v |-> 0, d |-> 1] ELSE [v |-> moved, d |-> d]
    IN  IF low.v >= size THEN [v |-> size - 1, d |-> -1] ELSE low

\* updatePositions(): the body of the forEach on every position.
updatePositions(ps, w, h) ==
    [i \in DOMAIN ps |->
        LET ax == BounceAxis(ps[i].x, ps[i].dx, w)
            ay == BounceAxis(ps[i].y, ps[i].dy, h)
        IN  [x |-> ax.v, y |-> ay.v, dx |-> ax.d, dy |-> ay.d]]

\* frame.map(row => row.join('')) for an h x w frame of spaces on which the
\* numbers of ps were written in order: the cell of row r and column c shows
\* the last number written there.  (A write at a negative column adds a
\* property to the row and no character to the text.)
FrameText(ps, w, h) ==
    [r \in 1..h |-> [c \in 1..w |->
        LET hits == {i \in DOMAIN ps : ps[i].y = r - 1 /\ ps[i].x = c - 1}
        IN  IF hits = {} THEN " "
            ELSE CHOOSE i \in hits : \A k \in hits : k <= i]]

\* draw() of ThreeRulesBounce for the positions ps, the width w and the
\* height h.  Array(n) throws a RangeError for n < 0: Array(height) when
\* h < 0, Array(width) in the first call of map's callback when w < 0 and
\* h > 0.  frame[y][x] = .. throws a TypeError when frame[y] is undefined,
\* after the writes of the numbers before it; on another column than those
\* of the row it writes outside the frame and throws nothing.  The text is
\* assigned only when nothing threw.
b_draw(ps, w, h) ==
    IF h < 0 \/ (h > 0 /\ w < 0)
    THEN [frame |-> <<>>, writes |-> {}, error |-> "RangeError", text |-> <<>>]
    ELSE LET cols == IF h = 0 THEN 0 ELSE w
             noRow == {i \in DOMAIN ps : ps[i].y \notin 0..(h - 1)}
             written == {i \in DOMAIN ps : \A k \in noRow : i < k}
         IN  [frame  |-> <<h, cols>>,
              writes |-> {<<ps[i].y, ps[i].x>> : i \in written},
              error  |-> IF noRow = {} THEN "none" ELSE "TypeError",
              text   |-> FrameText(ps, cols, h)]

click_keepsInterval(ow, oh, iw, ih) ==
    /\ clicks < MaxClicks
    /\ clicks' = clicks + 1
    /\ show' = ~show
    /\ IF ~show
       THEN \E size \in {updateSize(ow, oh, iw, ih)} :
               /\ b_width' = size.width
               /\ b_height' = size.height
               /\ positions' = InitialPositions(size.width, size.height)
               /\ b_listeners' = b_listeners + 1
               /\ b_intervals' = b_intervals + 1
               /\ b_last' = "mount"
       ELSE /\ b_width' = 0
            /\ b_height' = 0
            /\ positions' = <<>>
            /\ b_listeners' = b_listeners - 1
            /\ b_intervals' = b_intervals
            /\ b_last' = "hidden"
    /\ posBefore' = <<>>
    /\ b_frame' = <<>>
    /\ b_writes' = {}
    /\ b_error' = "none"
    /\ textContent' = <<>>
    /\ UNCHANGED <<conwayVars, pageVars>>

\* A click on the button: setShow(!show), the render that follows, and the
\* effects of that render.  When show becomes true ThreeRulesBounce mounts
\* with an empty <pre> and its effect runs: updateSize, positions,
\* addEventListener, setInterval.  When show becomes false it unmounts and
\* the effect's cleanup runs: clearInterval, removeEventListener; the
\* effect's variables are gone.
click(ow, oh, iw, ih) ==
    /\ clicks < MaxClicks
    /\ clicks' = clicks + 1
    /\ show' = ~show
    /\ IF ~show
       THEN \E size \in {updateSize(ow, oh, iw, ih)} :
               /\ b_width' = size.width
               /\ b_height' = size.height
               /\ positions' = InitialPositions(size.width, size.height)
               /\ b_listeners' = b_listeners + 1
               /\ b_intervals' = b_intervals + 1
               /\ b_last' = "mount"
       ELSE /\ b_width' = 0
            /\ b_height' = 0
            /\ positions' = <<>>
            /\ b_listeners' = b_listeners - 1
            /\ b_intervals' = b_intervals - 1
            /\ b_last' = "hidden"
    /\ posBefore' = <<>>
    /\ b_frame' = <<>>
    /\ b_writes' = {}
    /\ b_error' = "none"
    /\ textContent' = <<>>
    /\ UNCHANGED <<conwayVars, pageVars>>

\* One firing of the interval: updatePositions(); draw().  What draw throws
\* leaves the callback; the timer stays registered.
bounceTick ==
    /\ b_intervals >= 1
    /\ \E ps \in {updatePositions(positions, b_width, b_height)} :
          \E res \in {b_draw(ps, b_width, b_height)} :
             /\ positions' = ps
             /\ posBefore' = positions
             /\ b_frame' = res.frame
             /\ b_writes' = res.writes
             /\ b_error' = res.error
             /\ textContent' = IF res.error = "none" THEN res.text ELSE textContent
    /\ b_last' = "tick"
    /\ UNCHANGED <<show, clicks, b_intervals, b_listeners, b_width, b_height,
                   conwayVars, pageVars>>

\* The resize listener: width and height become those of updateSize().
handleResize(ow, oh, iw, ih) ==
    /\ b_listeners >= 1
    /\ \E size \in {updateSize(ow, oh, iw, ih)} :
          /\ b_width' = size.width
          /\ b_height' = size.height
    /\ b_last' = "resize"
    /\ UNCHANGED <<show, clicks, b_intervals, b_listeners, positions, posBefore,
                   b_frame, b_writes, b_error, textContent, conwayVars, pageVars>>

\* ToggleBounce as first rendered, on a page without the game and before
\* any request.
InitBounce ==
    /\ NoGame(FALSE)
    /\ BounceHidden
    /\ PageIdle

NextBounce ==
    \/ \E o \in OffsetSizes, i \in WindowSizes : click(o, o, i, i)
    \/ bounceTick
    \/ \E o \in OffsetSizes, i \in WindowSizes : handleResize(o, o, i, i)

SpecBounce == InitBounce /\ [][NextBounce]_vars

(***************************************************************************)
(* Properties                                                              *)
(***************************************************************************)

\* The grid update returned in the last tick.
updOut == heap[grid]

\* The alive Moore neighbours of (x, y) inside the grid, by definition:
\* the cells other than (x, y) at distance at most 1 in both coordinates.
MooreAlive(g, x, y) ==
    {p \in Cells : /\ p # <<x, y>>
                   /\ p[1] - x \in -1..1
                   /\ p[2] - y \in -1..1
                   /\ g[p[1]][p[2]] = 1}

\* C1 (birth rule): after a tick, every cell that was dead in the grid
\* passed to update and for which countAliveNeighbors returns 3 on that grid
\* is alive in the grid update returned.
C1_Birth ==
    last = "tick" =>
        \A p \in Cells :
            (updIn[p[1]][p[2]] = 0 /\ countAliveNeighbors(updIn, p[1], p[2]) = 3)
                => updOut[p[1]][p[2]] = 1

\* A tick in which a dead cell with three alive neighbours was born.
C1_Witness ==
    /\ last = "tick"
    /\ \E p \in Cells : /\ updIn[p[1]][p[2]] = 0
                        /\ countAliveNeighbors(updIn, p[1], p[2]) = 3
                        /\ updOut[p[1]][p[2]] = 1

\* C2 (survival and death): after a tick, every cell that was alive in the
\* grid passed to update is alive in the result when its neighbour count is
\* 2 or 3 and dead when the count is 0, 1, 4, 5, 6, 7 or 8.
C2_SurvivalDeath ==
    last = "tick" =>
        \A p \in Cells :
            updIn[p[1]][p[2]] = 1 =>
                LET n == countAliveNeighbors(updIn, p[1], p[2])
                IN  /\ n \in {2, 3} => updOut[p[1]][p[2]] = 1
                    /\ n \in {0, 1, 4, 5, 6, 7, 8} => updOut[p[1]][p[2]] = 0

\* A tick that kept an alive cell with 3 neighbours and killed one with 8.
C2_Witness ==
    /\ last = "tick"
    /\ \E p \in Cells : /\ updIn[p[1]][p[2]] = 1
                        /\ countAliveNeighbors(updIn, p[1], p[2]) = 3
                        /\ updOut[p[1]][p[2]] = 1
    /\ \E p \in Cells : /\ updIn[p[1]][p[2]] = 1
                        /\ countAliveNeighbors(updIn, p[1], p[2]) = 8
                        /\ updOut[p[1]][p[2]] = 0

\* C3 (dead stays dead): after a tick, every cell that was dead in the grid
\* passed to update and whose neighbour count is not 3 is dead in the result.
C3_DeadStaysDead ==
    last = "tick" =>
        \A p \in Cells :
            (updIn[p[1]][p[2]] = 0 /\ countAliveNeighbors(updIn, p[1], p[2]) # 3)
                => updOut[p[1]][p[2]] = 0

\* A tick that left dead a dead cell with four alive neighbours.
C3_Witness ==
    /\ last = "tick"
    /\ \E p \in Cells : /\ updIn[p[1]][p[2]] = 0
                        /\ countAliveNeighbors(updIn, p[1], p[2]) = 4
                        /\ updOut[p[1]][p[2]] = 0

\* C4 (neighbour count): for every cell, the value countAliveNeighbors
\* returned during the last update is the number of alive cells among the
\* Moore neighbours inside the grid (the cell itself and positions outside
\* the grid not counted), and it lies in 0..8.
C4_NeighborCount ==
    last = "tick" =>
        /\ DOMAIN counts = Cells
        /\ \A p \in Cells : /\ counts[p] = Cardinality(MooreAlive(updIn, p[1], p[2]))
                            /\ counts[p] \in 0..8

\* A tick on a grid where an alive corner cell has fewer than three
\* neighbours inside the grid, all alive, and an alive inner cell has eight.
C4_Witness ==
    /\ last = "tick"
    /\ width >= 3
    /\ updIn[0][0] = 1
    /\ counts[<<0, 0>>] = 3
    /\ updIn[1][1] = 1
    /\ counts[<<1, 1>>] = 8

\* C5 (no out-of-range access): every index countAliveNeighbors read during
\* the last update lies in [0, height) x [0, width).
C5_ReadsInBounds == reads \subseteq Cells

\* A tick whose update counted the neighbours of all four corners, each
\* reading exactly its three in-range neighbours.
C5_Witness ==
    /\ last = "tick"
    /\ width >= 2
    /\ reads = Cells
    /\ \A p \in {0, height - 1} \X {0, width - 1} :
          Cardinality(NeighborScan(updIn, p[1], p[2], 0).reads) = 3

\* C6 (input not mutated): after a tick, the array passed to update holds
\* at return the cells it held at entry, and the array update returned is
\* another array.
C6_InputNotMutated ==
    last = "tick" => (updInAfter = updIn /\ grid # updInAddr)

\* A tick whose result differs from its argument.
C6_Witness ==
    /\ last = "tick"
    /\ updOut # updIn
    /\ updInAfter = updIn

\* The dimensions derived from the present surface size.
SurfaceWidth == CeilDiv(canvas_width, cellSize)
SurfaceHeight == CeilDiv(canvas_height, cellSize)

\* The array g has h rows of w cells.
HasShape(g, h, w) ==
    /\ DOMAIN g = 0..(h - 1)
    /\ \A r \in DOMAIN g : DOMAIN g[r] = 0..(w - 1)

\* C7 (resize recreates the grid): after a tick, width and height are the
\* values derived from the surface size and the grid has those dimensions.
C7_ResizeRecreatesGrid ==
    last = "tick" =>
        /\ width = SurfaceWidth
        /\ height = SurfaceHeight
        /\ HasShape(heap[grid], SurfaceHeight, SurfaceWidth)

\* C8 (dimensions match): in every state, hence in every state a tick
\* starts from, the current grid has exactly height rows of exactly width
\* cells.
C8_GridMatchesDims == HasShape(heap[grid], height, width)

\* A tick that ran after a resize to a surface of another width.
C8_Witness ==
    /\ last = "tick"
    /\ SurfaceWidth # width
    /\ reads = Cells
    /\ HasShape(heap[grid], height, width)

\* C9 (positive dimensions): width and height are at least 1.
C9_DimensionsPositive == width >= 1 /\ height >= 1

C11_NoCallbackAfterTeardown ==
    [][/\ last' = "cleanup" => (~interval' /\ ~listener')
       /\ last = "cleanup" => last' \notin {"tick", "resize"}]_vars

\* The cleanup has run after ticks and after a resize to another width.
C11_Witness ==
    /\ last = "cleanup"
    /\ ~interval
    /\ ~listener
    /\ reads = Cells
    /\ width >= 1
    /\ SurfaceWidth # width

\* C12 (unavailable surface): a tick that runs while the canvas is no longer
\* available makes no call on the drawing context; and when the canvas or
\* its context is missing at startup, no timer and no listener exist.
C12_UnavailableSurfaceNoDraw ==
    /\ (last = "tick" /\ ~canvasRef_current) => drawCalls = 0
    /\ (~canvas \/ ~ctx) => (~interval /\ ~listener)

\* The alive cells of g.
AliveCells(g) == {p \in Cells : g[p[1]][p[2]] = 1}

\* Every cell of g is dead.
AllDead(g) == \A r \in DOMAIN g : \A c \in DOMAIN g[r] : g[r][c] = 0

\* C13 (block): on a grid of at least 4x4 whose alive cells are exactly a
\* 2x2 square, at any position, update returns a grid equal to its argument.
C13_BlockStill ==
    (/\ last = "tick"
     /\ height >= 4
     /\ width >= 4
     /\ \E p \in Cells : AliveCells(updIn) = Block(p[1], p[2]))
        => updOut = updIn

\* A tick on a block in the bottom right corner of a grid of at least 4x4.
C13_Witness ==
    /\ last = "tick"
    /\ height >= 4
    /\ width >= 4
    /\ AliveCells(updIn) = Block(height - 2, width - 2)
    /\ updOut = updIn

\* S turned by 90 degrees about the cell p.
Rotate(S, p) == {<<p[1] + (q[2] - p[2]), p[2] - (q[1] - p[1])>> : q \in S}

\* The alive cells S are three cells in a row or in a column centred on p,
\* none of them on the first or last row or column.
BlinkerAway(S, p) ==
    /\ S \in {HBlinker(p[1], p[2]), VBlinker(p[1], p[2])}
    /\ \A q \in S : q[1] \in 1..(height - 2) /\ q[2] \in 1..(width - 2)

\* C14 (blinker): on a grid of at least 5x5 whose alive cells are exactly
\* three cells in a line away from the boundary, update returns another
\* grid, the three cells turned by 90 degrees about the middle one, and
\* update of that grid is the first grid again.
C14_BlinkerPeriod2 ==
    (last = "tick" /\ height >= 5 /\ width >= 5) =>
        \A p \in Cells :
            BlinkerAway(AliveCells(updIn), p) =>
                /\ updOut # updIn
                /\ AliveCells(updOut) = Rotate(AliveCells(updIn), p)
                /\ updateValue(updOut) = updIn

\* A tick that turned a horizontal blinker into the vertical one.
C14_Witness ==
    /\ last = "tick"
    /\ height >= 5
    /\ width >= 5
    /\ \E p \in Cells : /\ BlinkerAway(AliveCells(updIn), p)
                        /\ AliveCells(updIn) = HBlinker(p[1], p[2])
                        /\ AliveCells(updOut) = VBlinker(p[1], p[2])

\* C15 (dead stays dead): whatever the height and the width, a step from a
\* state whose grid is all dead leads to a state whose grid is all dead.
C15_DeadGridStaysDead == [][AllDead(heap[grid]) => AllDead(heap'[grid'])]_vars

\* A tick on an all-dead grid of at least 4x4 that returned an all-dead grid.
C15_Witness ==
    /\ last = "tick"
    /\ height >= 4
    /\ width >= 4
    /\ AllDead(updIn)
    /\ AllDead(updOut)
    /\ \A p \in Cells : counts[p] = 0

\* C16 (lone cell): on a 3x3 grid with exactly one alive cell, update
\* returns the 3x3 grid with every cell dead.
C16_LoneCellDies ==
    (last = "tick" /\ height = 3 /\ width = 3 /\ Cardinality(AliveCells(updIn)) = 1)
        => updOut = GridOf(3, 3, {})

\* A tick on the 3x3 grid whose only alive cell is the last corner.
C16_Witness ==
    /\ last = "tick"
    /\ height = 3
    /\ width = 3
    /\ AliveCells(updIn) = {<<2, 2>>}
    /\ AliveCells(updOut) = {}

\* C17 (determinism): in every step the grid after the step is determined by
\* the grid before it alone: a tick leaves update of the grid before it,
\* whatever the address it lives at, and any other step leaves the same cells.
C17_Deterministic ==
    [][IF last' = "tick" THEN heap'[grid'] = updateValue(heap[grid])
                         ELSE heap'[grid'] = heap[grid]]_vars

\* A tick, after a resize to another width, on a grid that update changes.
C17_Witness ==
    /\ last = "tick"
    /\ updOut = updateValue(updIn)
    /\ updOut # updIn
    /\ canvas_width # width * cellSize
    /\ SurfaceWidth # width

\* C18 (well-formed grid): the current grid is always height rows of width
\* cells, each 0 or 1, and the grid update returned has the numbers of rows
\* and of cells per row of its argument.
C18_GridWellFormed ==
    /\ heap[grid] \in RandomGrids(height, width)
    /\ last = "tick" =>
          /\ DOMAIN updOut = DOMAIN updIn
          /\ \A r \in DOMAIN updIn : DOMAIN updOut[r] = DOMAIN updIn[r]

\* A tick that returned a grid with an alive and a dead cell.
C18_Witness ==
    /\ last = "tick"
    /\ width >= 2
    /\ heap[grid] \in RandomGrids(height, width)
    /\ \E p, q \in Cells : updOut[p[1]][p[2]] = 1 /\ updOut[q[1]][q[2]] = 0

\* C19 (render is a projection): after a tick, the square at
\* (col * cellSize, row * cellSize) is filled exactly for the cells alive in
\* the grid the tick rendered, there is no other square on the canvas, and
\* the tick made one clearRect call and one fillRect call per alive cell.
C19_RenderProjection ==
    last = "tick" =>
        /\ \A p \in Cells :
              (<<p[2] * cellSize, p[1] * cellSize>> \in frame) <=> (updIn[p[1]][p[2]] = 1)
        /\ Cardinality(frame) = Cardinality(AliveCells(updIn))
        /\ drawCalls = 1 + Cardinality(AliveCells(updIn))

\* A second or later tick that rendered some cells alive and some dead.
C19_Witness ==
    /\ last = "tick"
    /\ updInAddr = 1
    /\ width >= 2
    /\ <<0, 0>> \in frame
    /\ <<cellSize, 0>> \notin frame
    /\ <<0, cellSize>> \in frame

\* C20 (ticks never halt): until the cleanup has run a tick is always
\* possible, and with the timer firing fairly either ticks occur again and
\* again for ever or the cleanup runs.
C20_TicksForever ==
    /\ [](last # "cleanup" => ENABLED draw)
    /\ ([]<><<draw>>_vars \/ <>(last = "cleanup"))

\* A second or later tick, with the timer still registered, that came after
\* a resize to another width.
C20_Witness ==
    /\ last = "tick"
    /\ interval
    /\ updInAddr = 1
    /\ canvas_width = 0
    /\ width > 0

\* C21 (no mixed generations): one grid array exists at a time, the one grid
\* refers to; and after a tick, under every interleaving of ticks and
\* resizes, the squares rendered are those of the grid the tick started from,
\* every neighbour count taken during the computation is the count in that
\* grid, and every cell of the grid published is the rule applied to that
\* grid's cell and count: nothing rendered or computed mixes in a cell of the
\* generation being built.
C21_GenerationsNotMixed ==
    /\ DOMAIN heap = {grid}
    /\ last = "tick" =>
          /\ frame = Filled(updIn)
          /\ \A p \in Cells :
                /\ counts[p] = Cardinality(MooreAlive(updIn, p[1], p[2]))
                /\ updOut[p[1]][p[2]] =
                      NextCell(updIn[p[1]][p[2]], Cardinality(MooreAlive(updIn, p[1], p[2])))

\* A second or later tick, after a resize to another width, that published a
\* grid in which some cell's neighbour count is not the one it had in the
\* grid the tick started from.
C21_Witness ==
    /\ last = "tick"
    /\ updInAddr = 1
    /\ SurfaceWidth # width
    /\ updOut # updIn
    /\ \E p \in Cells : counts[p] # Cardinality(MooreAlive(updOut, p[1], p[2]))
    /\ frame = Filled(updIn)

\* No two neighbouring events of the sequence s are of the same kind.
Alternates(s) == \A i \in 1..(Len(s) - 1) : s[i] # s[i + 1]

\* The number of events e in the sequence s.
Occurrences(s, e) == Cardinality({i \in 1..Len(s) : s[i] = e})

\* C23 (render and compute alternate): every tick performs exactly one
\* render and exactly one update, and the events of a tick following those of
\* the tick before it alternate between render and update.
C23_RenderUpdateAlternate ==
    [][last' = "tick" =>
          /\ Occurrences(tickEvents', "render") = 1
          /\ Occurrences(tickEvents', "update") = 1
          /\ Alternates(tickEvents \o tickEvents')]_vars

\* A second or later tick that rendered at least one square and updated.
C23_Witness ==
    /\ last = "tick"
    /\ updInAddr = 1
    /\ tickEvents = <<"render", "update">>
    /\ drawCalls >= 2
    /\ grid # updInAddr

\* app/content/<the segments of sl joined by '/'>.mdx, as the file system
\* resolves it.
RequestedFile(sl) == File(Normalize(contentDir, Front(sl)), Last(sl))

\* C22 (the file name is the path): after every request whose file
\* app/content/<slug>.mdx is on disk and whose import succeeded, Page has
\* returned content, and it is the component of that file; Page returns no
\* other file's component.
C22_FileNameIsPath ==
    /\ (outcome # "none" /\ RequestedFile(slug) \in fs /\ imported = "ok") =>
          (outcome = "content" /\ Content = RequestedFile(slug))
    /\ outcome = "content" =>
          (Content = File(contentDir \o Front(slug), Last(slug)) /\ Content \in bundle)

\* The request /a/b served from app/content/a/b.mdx while app/content/a.mdx
\* also exists.
C22_Witness ==
    /\ slug = <<"a", "b">>
    /\ outcome = "content"
    /\ Content = File(contentDir \o <<"a">>, "b")
    /\ File(contentDir, "a") \in fs
    /\ File(contentDir, "a") \in bundle

\* C24 (fails closed): after a request whose file is not on disk the outcome
\* is notFound and no import was made; after one whose file is on disk and
\* whose import threw the outcome is notFound; a request ends in content or
\* in notFound; content is returned only for a file on disk.
C24_FailsClosed ==
    outcome # "none" =>
        /\ RequestedFile(slug) \notin fs => (outcome = "notFound" /\ imported = "no")
        /\ (RequestedFile(slug) \in fs /\ imported = "threw") => outcome = "notFound"
        /\ outcome \in {"content", "notFound"}
        /\ outcome = "content" => (Content \in fs /\ RequestedFile(slug) \in fs)

\* A request for a module of the bundle whose file is not on disk ended in
\* notFound without an import.
C24_Witness ==
    /\ outcome = "notFound"
    /\ imported = "no"
    /\ File(contentDir \o Front(slug), Last(slug)) \in bundle
    /\ RequestedFile(slug) \notin fs

\* C25 (confined to app/content): after every request, the path passed to
\* existsSync lies in app/content or below it, and so does the file of the
\* component returned.
C25_InsideContentDir ==
    outcome # "none" =>
        /\ Inside(filePath.dir, contentDir)
        /\ outcome = "content" => Inside(Content.dir, contentDir)

\* The columns and the rows of a frame of w x h characters.
FrameCells(w, h) == (0..(h - 1)) \X (0..(w - 1))

\* C26 (numbers stay in frame): after a tick made with width >= 1 and
\* height >= 1, whatever ticks and resizes came before, every position has
\* 0 <= x < width and 0 <= y < height, and draw allocated a frame of height
\* rows of width columns, wrote every number inside it and threw nothing.
C26_StayInFrame ==
    (b_last = "tick" /\ b_width >= 1 /\ b_height >= 1) =>
        /\ \A i \in DOMAIN positions :
              /\ positions[i].x \in 0..(b_width - 1)
              /\ positions[i].y \in 0..(b_height - 1)
        /\ b_error = "none"
        /\ b_frame = <<b_height, b_width>>
        /\ b_writes = {<<positions[i].y, positions[i].x>> : i \in DOMAIN positions}
        /\ b_writes \subseteq FrameCells(b_width, b_height)

\* A tick after a resize that shrank the frame: a number that was at a
\* column beyond the new frame and one that was at a row beyond it at the
\* entry of the tick, both moving away, are on the last column and on the
\* last row after it.
C26_Witness ==
    /\ b_last = "tick"
    /\ b_width >= 1
    /\ b_height >= 1
    /\ \E i \in DOMAIN positions : /\ posBefore[i].x >= b_width
                                   /\ posBefore[i].dx = 1
                                   /\ positions[i].x = b_width - 1
    /\ \E i \in DOMAIN positions : /\ posBefore[i].y >= b_height
                                   /\ posBefore[i].dy = 1
                                   /\ positions[i].y = b_height - 1
    /\ b_writes \subseteq FrameCells(b_width, b_height)

\* C27 (draw is safe for every container): after every tick, draw allocated
\* a frame, of no negative size, threw nothing, and wrote every number at a
\* row and a column of that frame.
C27_DrawInsideFrame ==
    b_last = "tick" =>
        /\ b_error = "none"
        /\ b_frame # <<>>
        /\ b_writes \subseteq FrameCells(b_frame[2], b_frame[1])

\* |n|
Abs(n) == IF n < 0 THEN -n ELSE n

\* The position after a step obeys the bounce rule on one axis, v and d
\* being the coordinate and the direction before, v2 and d2 after, in a
\* frame of the given size that has not changed since the tick before.
BouncesBack(v, d, v2, d2, size, sameSize) ==
    /\ d2 \in {-1, 1}
    /\ sameSize => Abs(v2 - v) <= 1
    /\ v + d < 0 => (v2 = 0 /\ d2 = 1)
    /\ v + d >= size => (v2 = size - 1 /\ d2 = -1)

\* C28 (bounce step): every direction is -1 or +1; a tick that follows the
\* mount or another tick (no resize in between) moves x and y by at most 1;
\* and a number whose move would leave the frame is put on the wall cell, 0
\* or size - 1, its direction pointing back.
C28_BounceStep ==
    [][/\ \A i \in DOMAIN positions' :
             positions'[i].dx \in {-1, 1} /\ positions'[i].dy \in {-1, 1}
       /\ b_last' = "tick" =>
             \A i \in DOMAIN positions :
                /\ BouncesBack(positions[i].x, positions[i].dx,
                               positions'[i].x, positions'[i].dx,
                               b_width, b_last \in {"mount", "tick"})
                /\ BouncesBack(positions[i].y, positions[i].dy,
                               positions'[i].y, positions'[i].dy,
                               b_height, b_last \in {"mount", "tick"})]_vars

\* C29 (no leaked timers or listeners): the animation is shown iff the
\* number of clicks is odd; there is exactly one interval and one resize
\* listener while it is shown, none while it is hidden; and a tick is the
\* last thing that happened only while it is shown.
C29_NoLeak ==
    /\ show <=> (clicks % 2 = 1)
    /\ b_intervals = (IF show THEN 1 ELSE 0)
    /\ b_listeners = (IF show THEN 1 ELSE 0)
    /\ b_last \in {"tick", "resize", "mount"} => show
    /\ ~show => ~ENABLED bounceTick

\* The animation shown again by a third click, after ticks, with one timer
\* and one listener.
C29_Witness ==
    /\ clicks = 3
    /\ show
    /\ b_last = "tick"
    /\ b_intervals = 1
    /\ b_listeners = 1

====
